---- MODULE Spec2Model ----
(***************************************************************************)
(* Model of the EmySound client: the library operations insert and query   *)
(* (src/src/lib.rs) and the command-line program main with insert_track    *)
(* and query_track (src/src/main.rs).                                      *)
(*                                                                         *)
(* A call is one invocation of one of the four async functions.  Its steps *)
(* are the stretches of code between two awaits: resolving the source,     *)
(* reading the file, sending the request, receiving the status line and    *)
(* receiving the body.  The file system, the identifier generator and the  *)
(* remote service are the environment: their answers are chosen            *)
(* nondeterministically.                                                   *)
(*                                                                         *)
(* Numbers of type f32 are kept in hundredths (20 stands for 0.2).         *)
(***************************************************************************)
EXTENDS Integers, Sequences, FiniteSets, TLC

(***************************************************************************)
(* Bounds                                                                  *)
(***************************************************************************)
NumCalls == 2
NumUuids == 2

Calls == 1..NumCalls
Uuids == 1..NumUuids

(***************************************************************************)
(* Option<T>: None is the empty sequence, Some(x) the one-element one.     *)
(***************************************************************************)
None == <<>>
Some(x) == <<x>>

(***************************************************************************)
(* f32 values: a NaN flag and a value in hundredths.                       *)
(***************************************************************************)
F32(n) == [nan |-> FALSE, v |-> n]
NaN == [nan |-> TRUE, v |-> 0]

\* IEEE comparison: every comparison with NaN is false.
F32Ge(a, b) == ~a.nan /\ ~b.nan /\ a.v >= b.v
F32Le(a, b) == ~a.nan /\ ~b.nan /\ a.v <= b.v

\* Display of an f32 (min_confidence.to_string()): shortest decimal form,
\* "0", "0.2", "0.25", "1", "-0.01".
F32ToString(x) ==
  IF x.nan THEN "NaN"
  ELSE LET a == IF x.v < 0 THEN 0 - x.v ELSE x.v
           sign == IF x.v < 0 THEN "-" ELSE ""
           int == ToString(a \div 100)
           frac == a % 100
       IN  IF frac = 0 THEN sign \o int
           ELSE IF frac % 10 = 0 THEN sign \o int \o "." \o ToString(frac \div 10)
           ELSE sign \o int \o "." \o ToString(frac \div 10) \o ToString(frac % 10)

(***************************************************************************)
(* Uuid and its hyphenated string form (Uuid's Display).                   *)
(***************************************************************************)
UuidToString(u) == "00000000-0000-4000-8000-00000000000" \o ToString(u)

(***************************************************************************)
(* Paths.  An OS string is a sequence of units; BadByte is a unit that is  *)
(* not valid UTF-8.  A path is a root flag and its separator-delimited     *)
(* components as written.                                                  *)
(***************************************************************************)
BadByte == "\\xFF"
ReplacementChar == "\\u{FFFD}"
CurDir == <<".">>
ParentDir == <<"..">>

\* std::path::Path::components: "." is dropped except at the start of a
\* relative path; the root is a component of its own, never a name.
PathComponents(path) ==
  LET keep == {i \in DOMAIN path.comps :
                 path.comps[i] # CurDir \/ (i = 1 /\ ~path.root)}
      F[i \in 0..Len(path.comps)] ==
        IF i = 0 THEN <<>>
        ELSE IF i \in keep THEN Append(F[i - 1], path.comps[i]) ELSE F[i - 1]
  IN  F[Len(path.comps)]

\* std::path::Path::file_name: the last component if it is a normal name.
PathFileName(path) ==
  LET cs == PathComponents(path)
  IN  IF cs = <<>> THEN None
      ELSE IF cs[Len(cs)] \in {CurDir, ParentDir} THEN None
      ELSE Some(cs[Len(cs)])

\* OsStr::to_string_lossy: invalid units become U+FFFD.
ToStringLossy(os) ==
  [i \in DOMAIN os |-> IF os[i] = BadByte THEN ReplacementChar ELSE os[i]]

FileNameOfOrEmpty(path) ==
  LET fnm == PathFileName(path)
  IN  IF fnm = None THEN Some(<<>>) ELSE Some(ToStringLossy(fnm[1]))

\* filename.to_string_lossy().to_string() applied under Option::map.
FileNameOf(path) ==
  LET fnm == PathFileName(path)
  IN  IF fnm = None THEN None ELSE Some(ToStringLossy(fnm[1]))

(***************************************************************************)
(* MediaSource                                                             *)
(***************************************************************************)
NoPath == [root |-> FALSE, comps |-> <<>>]
File(path) == [tag |-> "File", path |-> path, file_name |-> <<>>, bytes |-> <<>>]
Bytes(name, data) == [tag |-> "Bytes", path |-> NoPath, file_name |-> name, bytes |-> data]

(***************************************************************************)
(* JSON documents as the service may send them.                            *)
(***************************************************************************)
JText(s) == [t |-> "text", v |-> s]      \* a body that is not JSON
JNull == [t |-> "null", v |-> 0]
JNum(n) == [t |-> "num", v |-> n]
JStr(s) == [t |-> "str", v |-> s]
JBool(b) == [t |-> "bool", v |-> b]
JArr(s) == [t |-> "arr", v |-> s]
JObj(r) == [t |-> "obj", v |-> r]

Ok(x) == [ok |-> TRUE, v |-> x]
Fail == [ok |-> FALSE, v |-> 0]

HasField(j, f) == f \in DOMAIN j.v
\* a required field of the given JSON type
Req(j, f, ty) == HasField(j, f) /\ j.v[f].t = ty
\* an Option field: absent, null, or of the given type
Opt(j, f, ty) == ~HasField(j, f) \/ j.v[f].t \in {"null", ty}
OptValue(j, f) ==
  IF ~HasField(j, f) THEN None
  ELSE IF j.v[f].t = "null" THEN None ELSE Some(j.v[f].v)

\* #[derive(Deserialize)] struct Gap
DecodeGap(j) ==
  IF /\ j.t = "obj"
     /\ Req(j, "start", "num") /\ Req(j, "end", "num")
     /\ Req(j, "isOnEdge", "bool") /\ Req(j, "lengthInSeconds", "num")
  THEN Ok([start |-> j.v["start"].v, end |-> j.v["end"].v,
           is_on_edge |-> j.v["isOnEdge"].v,
           length_in_seconds |-> j.v["lengthInSeconds"].v])
  ELSE Fail

\* Vec<Gap>
DecodeGaps(j) ==
  IF j.t # "arr" THEN Fail
  ELSE LET gs == [i \in DOMAIN j.v |-> DecodeGap(j.v[i])]
       IN  IF \A i \in DOMAIN gs : gs[i].ok
           THEN Ok([i \in DOMAIN gs |-> gs[i].v]) ELSE Fail

CoverageNumbers ==
  <<"queryMatchStartsAt", "trackMatchStartsAt", "queryCoverageLength",
    "trackCoverageLength", "queryDiscreteCoverageLength",
    "trackDiscreteCoverageLength", "queryLength", "trackLength">>

\* #[derive(Deserialize)] struct AudioCoverage
DecodeAudioCoverage(j) ==
  IF /\ j.t = "obj"
     /\ \A i \in DOMAIN CoverageNumbers : Req(j, CoverageNumbers[i], "num")
     /\ Opt(j, "queryCoverage", "num") /\ Opt(j, "trackCoverage", "num")
     /\ HasField(j, "queryGaps") /\ HasField(j, "trackGaps")
     /\ DecodeGaps(j.v["queryGaps"]).ok /\ DecodeGaps(j.v["trackGaps"]).ok
  THEN Ok([query_match_starts_at |-> j.v["queryMatchStartsAt"].v,
           track_match_starts_at |-> j.v["trackMatchStartsAt"].v,
           query_coverage |-> OptValue(j, "queryCoverage"),
           track_coverage |-> OptValue(j, "trackCoverage"),
           query_coverage_length |-> j.v["queryCoverageLength"].v,
           track_coverage_length |-> j.v["trackCoverageLength"].v,
           query_discrete_coverage_length |-> j.v["queryDiscreteCoverageLength"].v,
           track_discrete_coverage_length |-> j.v["trackDiscreteCoverageLength"].v,
           query_length |-> j.v["queryLength"].v,
           track_length |-> j.v["trackLength"].v,
           query_gaps |-> DecodeGaps(j.v["queryGaps"]).v,
           track_gaps |-> DecodeGaps(j.v["trackGaps"]).v])
  ELSE Fail

\* #[derive(Deserialize)] struct AudioMatch
DecodeAudioMatch(j) ==
  IF /\ j.t = "obj"
     /\ Req(j, "queryMatchId", "str")
     /\ HasField(j, "coverage") /\ DecodeAudioCoverage(j.v["coverage"]).ok
  THEN Ok([id |-> j.v["queryMatchId"].v,
           coverage |-> DecodeAudioCoverage(j.v["coverage"]).v])
  ELSE Fail

\* #[derive(Deserialize)] struct TrackInfo
DecodeTrackInfo(j) ==
  IF /\ j.t = "obj"
     /\ Req(j, "id", "str") /\ Req(j, "audioTrackLength", "num")
     /\ Opt(j, "title", "str") /\ Opt(j, "artist", "str")
  THEN Ok([id |-> j.v["id"].v, title |-> OptValue(j, "title"),
           artist |-> OptValue(j, "artist"),
           length |-> j.v["audioTrackLength"].v])
  ELSE Fail

\* audio: Option<AudioMatch>
DecodeOptAudio(j) ==
  IF ~HasField(j, "audio") THEN Ok(None)
  ELSE IF j.v["audio"].t = "null" THEN Ok(None)
  ELSE LET a == DecodeAudioMatch(j.v["audio"])
       IN  IF a.ok THEN Ok(Some(a.v)) ELSE Fail

\* #[derive(Deserialize)] struct QueryResult; unknown fields are ignored
DecodeQueryResult(j) ==
  IF /\ j.t = "obj"
     /\ Req(j, "id", "str")
     /\ HasField(j, "track") /\ DecodeTrackInfo(j.v["track"]).ok
     /\ DecodeOptAudio(j).ok
  THEN Ok([id |-> j.v["id"].v, track |-> DecodeTrackInfo(j.v["track"]).v,
           audio |-> DecodeOptAudio(j).v])
  ELSE Fail

DecodeQueryResultsNonEmpty(j) ==
  IF j.t # "arr" \/ j.v = <<>> THEN Fail
  ELSE LET rs == [i \in DOMAIN j.v |-> DecodeQueryResult(j.v[i])]
       IN  IF \A i \in DOMAIN rs : rs[i].ok
           THEN Ok([i \in DOMAIN rs |-> rs[i].v]) ELSE Fail

\* res.json::<Vec<QueryResult>>() on a body that was read
DecodeQueryResults(j) ==
  IF j.t # "arr" THEN Fail
  ELSE LET rs == [i \in DOMAIN j.v |-> DecodeQueryResult(j.v[i])]
       IN  IF \A i \in DOMAIN rs : rs[i].ok
           THEN Ok([i \in DOMAIN rs |-> rs[i].v]) ELSE Fail

(***************************************************************************)
(* Errors and results.  anyhow errors are told apart by what they carry.   *)
(***************************************************************************)
Unit == "()"
Error(kind, msg) == [err |-> kind, msg |-> msg, status |-> 0, text |-> JNull]
Err(e) == [ok |-> FALSE, v |-> e]

\* ensure!(..., "Min confidence must be between 0 and 1")
InvalidArgument == Error("InvalidArgument", "Min confidence must be between 0 and 1")
\* anyhow!("Track path is invalid, can't extract the filename")
InvalidPath == Error("InvalidPath", "Track path is invalid, can't extract the filename")
\* tokio::fs::read(..).await.context("Reading track file")?
IoError == Error("IoError", "Reading track file")
\* .send().await?  and  res.text().await?
TransportError == Error("TransportError", "reqwest::Error")
\* res.json().await.context("Decode response body failed")
DecodeError == Error("DecodeError", "Decode response body failed")

ServiceRejectedNoText(msg, st, text) ==
  [err |-> "ServiceRejected", msg |-> msg, status |-> st, text |-> JText("")]

\* anyhow!("Failed to insert track {status} {text}")
ServiceRejected(msg, st, text) ==
  [err |-> "ServiceRejected", msg |-> msg, status |-> st, text |-> text]

StatusOK == 200

(***************************************************************************)
(* Requests                                                                *)
(***************************************************************************)
EMYSOUND_API == "http://localhost:3340/api/v1.1/"

\* Url::join on a base that ends with "/": the reference is appended.
UrlJoin(base, rel) == base \o rel

\* Part::stream_with_length(content, len).file_name(..).mime_str(..)
FilePart(name, data) ==
  [name |-> "file", file_name |-> name, content |-> data,
   length |-> Len(data), mime |-> "application/octet-stream"]

Form(fields, part) == [fields |-> fields, file |-> part]

\* Client::new().post(url).basic_auth("ADMIN", Some("")).headers(..)
\*   .query(..).multipart(form)
Post(url, params, form) ==
  [method |-> "POST", url |-> url, auth |-> <<"ADMIN", "">>,
   accept |-> "application/json", query |-> params, form |-> form]

ValidConfidenceNoUpper(mc) == F32Ge(mc, F32(0))

\* min_confidence >= 0f32 && min_confidence <= 1f32
ValidConfidence(mc) == F32Ge(mc, F32(0)) /\ F32Le(mc, F32(100))

\* lib.rs insert: the form and the request
InsertRequest(id, artist, title, name, data) ==
  Post(UrlJoin(EMYSOUND_API, "Tracks"), <<>>,
       Form(<< <<"Id", UuidToString(id)>>, <<"Artist", artist>>,
               <<"Title", title>>, <<"MediaType", "Audio">> >>,
            FilePart(name, data)))

QueryParamsFixed(mc) ==
  << <<"mediaType", "Audio">>, <<"minCoverage", "0">>,
     <<"registerMatches", "true">> >>

\* lib.rs query: .query(&[...])
QueryParams(mc) ==
  << <<"mediaType", "Audio">>, <<"minCoverage", F32ToString(mc)>>,
     <<"registerMatches", "true">> >>

\* lib.rs query: the form and the request
QueryRequest(mc, name, data) ==
  Post(UrlJoin(EMYSOUND_API, "Query"), QueryParams(mc),
       Form(<<>>, FilePart(name, data)))

TrackIdBare(u, meta) == UuidToString(u)

TrackIdMetaOnly(u, meta) == meta

\* main.rs insert_track: format!("{uuid} {meta}")
TrackId(u, meta) == UuidToString(u) \o " " \o meta

\* main.rs insert_track: the form and the request
InsertTrackRequest(u, artist, title, meta, name, data) ==
  Post("http://localhost:3340/api/v1.1/Tracks", <<>>,
       Form(<< <<"Id", TrackId(u, meta)>>, <<"Artist", artist>>,
               <<"Title", title>>, <<"MediaType", "Audio">>,
               <<"meta", meta>> >>,
            FilePart(name, data)))

\* main.rs query_track: the form and the request
QueryTrackRequest(name, data) ==
  Post("http://localhost:3340/api/v1.1/Query",
       << <<"mediaType", "Audio">>, <<"minConfidence", "0.2">>,
          <<"minCoverage", "0">>, <<"registerMatches", "true">> >>,
       Form(<<>>, FilePart(name, data)))

(***************************************************************************)
(* main.rs main: what the process ends with, given what the command's      *)
(* function returned.  stdout holds the scores printed, one per result.    *)
(***************************************************************************)
Score(r) ==
  IF r.audio = None THEN 0
  ELSE IF r.audio[1].coverage.query_coverage = None THEN 0
  ELSE r.audio[1].coverage.query_coverage[1]

MainErr(msg, cause, out) == [ok |-> FALSE, msg |-> msg, cause |-> cause, stdout |-> out]
MainOk(out) == [ok |-> TRUE, msg |-> "", cause |-> None, stdout |-> out]

mainEmptyOk(kind, r) ==
  IF kind = "insert_track"
  THEN IF r.ok THEN MainOk(<<>>)
       ELSE MainErr("Failed to insert track {file}", Some(r.v), <<>>)
  ELSE IF ~r.ok THEN MainErr("Failed to query track {file}", Some(r.v), <<>>)
       ELSE MainOk([i \in DOMAIN r.v |-> Score(r.v[i])])

main(kind, r) ==
  IF kind = "insert_track"
  THEN IF r.ok THEN MainOk(<<>>)
       ELSE MainErr("Failed to insert track {file}", Some(r.v), <<>>)
  ELSE IF ~r.ok THEN MainErr("Failed to query track {file}", Some(r.v), <<>>)
       ELSE LET out == [i \in DOMAIN r.v |-> Score(r.v[i])]
            IN  IF r.v = <<>> THEN MainErr("No results", None, out)
                ELSE MainOk(out)

(***************************************************************************)
(* Inputs the callers may pass and answers the environment may give.       *)
(***************************************************************************)
NameA == <<"a", ".mp3">>
NameB == <<"b", ".wav">>
NameBad == <<BadByte, ".mp3">>
Dir == <<"dir">>

PathEmpty == [root |-> FALSE, comps |-> <<>>]                  \* ""
PathRoot == [root |-> TRUE, comps |-> <<>>]                    \* "/"
PathDot == [root |-> FALSE, comps |-> <<CurDir>>]              \* "."
PathParent == [root |-> FALSE, comps |-> <<Dir, ParentDir>>]   \* "dir/.."
PathRel == [root |-> FALSE, comps |-> <<Dir, NameA>>]          \* "dir/a.mp3"
PathAbs == [root |-> TRUE, comps |-> <<NameA>>]                \* "/a.mp3"
PathTrailingDot == [root |-> FALSE, comps |-> <<NameA, CurDir>>] \* "a.mp3/."
PathBad == [root |-> FALSE, comps |-> <<Dir, NameBad>>]        \* "dir/\xFF.mp3"

Paths == {PathEmpty, PathRoot, PathDot, PathParent, PathRel, PathAbs,
          PathTrailingDot, PathBad}

Data == <<82, 73, 70, 70>>
Sources == {File(p) : p \in Paths} \cup {Bytes(NameB, Data)}

\* -0.01, 0.0, 0.2, 1.0, 1.01 and NaN
MinConfidences == {F32(0 - 1), F32(0), F32(20), F32(100), F32(101), NaN}
Metas == {"", "full"}

Input(kind, source, id, meta, mc) ==
  [kind |-> kind, source |-> source, id |-> id, artist |-> "Gravity Falls",
   title |-> "Main theme", meta |-> meta, min_confidence |-> mc]

NoInput == Input("none", File(PathEmpty), 1, "", F32(0))

Inputs ==
  {Input("insert", s, u, "", F32(0)) : s \in Sources, u \in Uuids}
  \cup {Input("query", s, 1, "", mc) : s \in Sources, mc \in MinConfidences}
  \cup {Input("insert_track", File(p), 1, m, F32(0)) : p \in Paths, m \in Metas}
  \cup {Input("query_track", File(p), 1, "", F32(0)) : p \in Paths}

\* arguments of the callers that run at once: one call of each function
ConcInputs ==
  {Input("insert", File(PathBad), 1, "", F32(0))}
  \cup {Input("query", File(PathAbs), 1, "", F32(20))}
  \cup {Input("insert_track", File(PathRel), 1, "full", F32(0))}
  \cup {Input("query_track", File(PathRel), 1, "", F32(0))}

\* what tokio::fs::read may return: the content, or an io::Error
ReadOutcomes == <<Ok(Data), [ok |-> FALSE, v |-> <<>>]>>

Statuses == {StatusOK, 404, 500}
\* the answers of the service while several callers run at once
ConcStatuses == {StatusOK, 500}

Coverage(qc, gaps) ==
  JObj([queryMatchStartsAt |-> JNum(0), trackMatchStartsAt |-> JNum(0),
        queryCoverage |-> qc, trackCoverage |-> JNum(11),
        queryCoverageLength |-> JNum(455), trackCoverageLength |-> JNum(455),
        queryDiscreteCoverageLength |-> JNum(455),
        trackDiscreteCoverageLength |-> JNum(455),
        queryLength |-> JNum(495), trackLength |-> JNum(3952),
        queryGaps |-> JArr(<<>>), trackGaps |-> JArr(gaps)])

GapEdge ==
  JObj([start |-> JNum(455), end |-> JNum(3952), isOnEdge |-> JBool(TRUE),
        lengthInSeconds |-> JNum(3497)])

\* the match of tests::test_json_deserialization: fields the client does not
\* know (metaFields, mediaType, matchedAt, streamId, ...) are present
MatchFull ==
  JObj([id |-> JStr("m1"),
        track |-> JObj([id |-> JStr("t1 full"), title |-> JStr("Main theme"),
                        artist |-> JStr("Gravity Falls"), metaFields |-> JObj(<<>>),
                        mediaType |-> JStr("Audio"), audioTrackLength |-> JNum(3952),
                        videoTrackLength |-> JNum(0)]),
        matchedAt |-> JStr("2022-05-09"),
        audio |-> JObj([queryMatchId |-> JStr("q1"), matchedAt |-> JStr("2022-05-09"),
                        coverage |-> Coverage(JNum(92), <<GapEdge>>)]),
        streamId |-> JStr(""), reviewStatus |-> JStr("None")])

\* a match without title, artist and audio
MatchBare ==
  JObj([id |-> JStr("m2"),
        track |-> JObj([id |-> JStr("t2"), audioTrackLength |-> JNum(100)])])

\* not a match: the track is missing
MatchNoTrack == JObj([id |-> JStr("m3")])

\* a gap that ends before it starts and whose length is not end - start
GapBackwards ==
  JObj([start |-> JNum(500), end |-> JNum(300), isOnEdge |-> JBool(FALSE),
        lengthInSeconds |-> JNum(700)])

\* a match of the right shape whose numbers are out of range: a negative
\* track length and offset, a coverage of 1.5 and a backwards gap
MatchOutOfRange ==
  JObj([id |-> JStr("m4"),
        track |-> JObj([id |-> JStr("t4"), audioTrackLength |-> JNum(0 - 100)]),
        audio |-> JObj([queryMatchId |-> JStr("q4"),
                        coverage |->
                          JObj([queryMatchStartsAt |-> JNum(0 - 100),
                                trackMatchStartsAt |-> JNum(0),
                                queryCoverage |-> JNum(150),
                                trackCoverage |-> JNull,
                                queryCoverageLength |-> JNum(455),
                                trackCoverageLength |-> JNum(455),
                                queryDiscreteCoverageLength |-> JNum(455),
                                trackDiscreteCoverageLength |-> JNum(455),
                                queryLength |-> JNum(495),
                                trackLength |-> JNum(3952),
                                queryGaps |-> JArr(<<>>),
                                trackGaps |-> JArr(<<GapBackwards>>)])])])

BodyBoom == JText("boom")
BodyEmpty == JArr(<<>>)
BodyObject == JObj([message |-> JStr("boom")])
BodyOne == JArr(<<MatchBare>>)
BodyTwo == JArr(<<MatchFull, MatchBare>>)
BodyBadItem == JArr(<<MatchBare, MatchNoTrack>>)
BodyOutOfRange == JArr(<<MatchOutOfRange>>)

Bodies ==
  <<BodyBoom, BodyEmpty, BodyObject, BodyOne, BodyTwo, BodyBadItem, BodyOutOfRange>>

\* what reading the response body may give: the body, or a reqwest::Error
BodyOutcomes == [i \in DOMAIN Bodies |-> Ok(Bodies[i])] \o <<[ok |-> FALSE, v |-> JNull]>>
ConcBodyOutcomes == <<Ok(BodyTwo), [ok |-> FALSE, v |-> JNull]>>

(***************************************************************************)
(* State                                                                   *)
(***************************************************************************)
VARIABLES
  pc,         \* position of each call
  inp,        \* the arguments of each call
  env,        \* the answers the service may give in this run
  file_name,  \* Option<String>: the name extracted for the file part
  content,    \* Option: outcome of obtaining the payload
  uuid,       \* Option<Uuid>: identifier generated by insert_track
  status,     \* Option<StatusCode>: res.status()
  body,       \* Option: outcome of reading the response body
  decoded,    \* whether res.json() was called
  result,     \* Option<Result<..>>: what the function returned
  exit,       \* Option: what main returned (command-line calls only)
  wire        \* the requests handed to the transport, in order

vars == <<pc, inp, env, file_name, content, uuid, status, body, decoded, result, exit, wire>>

Blank(ins, e) ==
  /\ inp = ins
  /\ env = e
  /\ pc = [c \in Calls |-> IF ins[c] = NoInput THEN "idle" ELSE "start"]
  /\ file_name = [c \in Calls |-> None]
  /\ content = [c \in Calls |-> None]
  /\ uuid = [c \in Calls |-> None]
  /\ status = [c \in Calls |-> None]
  /\ body = [c \in Calls |-> None]
  /\ decoded = [c \in Calls |-> FALSE]
  /\ result = [c \in Calls |-> None]
  /\ exit = [c \in Calls |-> None]
  /\ wire = <<>>

\* one caller, any arguments
Init ==
  \E i \in Inputs : Blank([c \in Calls |-> IF c = 1 THEN i ELSE NoInput],
                          [statuses |-> Statuses, bodies |-> BodyOutcomes])

\* every caller active at once
InitConc ==
  \E ins \in [Calls -> ConcInputs] :
    Blank(ins, [statuses |-> ConcStatuses, bodies |-> ConcBodyOutcomes])

(***************************************************************************)
(* Pieces shared by the steps                                              *)
(***************************************************************************)
TransmitTwice(c, req) ==
  wire' = wire \o <<[call |-> c, req |-> req], [call |-> c, req |-> req]>>

TransmitShared(c, req) ==
  wire' = Append(wire, [call |-> c,
                        req |-> IF wire = <<>> THEN req
                                ELSE [req EXCEPT !.form = wire[Len(wire)].req.form]])

\* .send(): the request is handed to the transport
Transmit(c, req) == wire' = Append(wire, [call |-> c, req |-> req])

\* the function returns r to its caller
Return(c, r) ==
  /\ pc' = [pc EXCEPT ![c] = "done"]
  /\ result' = [result EXCEPT ![c] = Some(r)]

\* the function returns r to main, and main returns
ReturnToMain(c, r) ==
  /\ Return(c, r)
  /\ exit' = [exit EXCEPT ![c] = Some(main(inp[c].kind, r))]

\* match source { File(path) => path.file_name()..., Bytes(name, _) => name }
SourceName(src) ==
  IF src.tag = "File" THEN FileNameOf(src.path) ELSE Some(src.file_name)

\* res.json(): reads the body and decodes it; either may fail
ResponseJson(outcome) ==
  IF outcome.ok /\ outcome.v.t # "text" THEN DecodeQueryResults(outcome.v) ELSE Fail

(***************************************************************************)
(* lib.rs insert                                                           *)
(***************************************************************************)
\* lines 43-56 and, for a Bytes source, on to send()
insert_resolve(c) ==
  /\ pc[c] = "start" /\ inp[c].kind = "insert"
  /\ LET a == inp[c]
         fnm == SourceName(a.source)
     IN  IF fnm = None
         THEN /\ Return(c, Err(InvalidPath))
              /\ UNCHANGED <<file_name, content, wire>>
         ELSE /\ file_name' = [file_name EXCEPT ![c] = fnm]
              /\ IF a.source.tag = "File"
                 THEN /\ pc' = [pc EXCEPT ![c] = "read"]
                      /\ UNCHANGED <<content, wire, result>>
                 ELSE /\ content' = [content EXCEPT ![c] = Some(Ok(a.source.bytes))]
                      /\ Transmit(c, InsertRequest(a.id, a.artist, a.title,
                                                   fnm[1], a.source.bytes))
                      /\ pc' = [pc EXCEPT ![c] = "await"]
                      /\ UNCHANGED result
  /\ UNCHANGED <<inp, env, uuid, status, body, decoded, exit>>

\* lines 60-98: tokio::fs::read(&path).await, then the form and send()
insert_read(c) ==
  /\ pc[c] = "read" /\ inp[c].kind = "insert"
  /\ \E k \in DOMAIN ReadOutcomes : LET o == ReadOutcomes[k] IN
       /\ content' = [content EXCEPT ![c] = Some(o)]
       /\ IF o.ok
          THEN /\ Transmit(c, InsertRequest(inp[c].id, inp[c].artist, inp[c].title,
                                            file_name[c][1], o.v))
               /\ pc' = [pc EXCEPT ![c] = "await"]
               /\ UNCHANGED result
          ELSE /\ Return(c, Err(IoError))
               /\ UNCHANGED wire
  /\ UNCHANGED <<inp, env, file_name, uuid, status, body, decoded, exit>>

\* lines 98-103: .send().await? and the match on the status
insert_status(c) ==
  /\ pc[c] = "await" /\ inp[c].kind = "insert"
  /\ \/ /\ Return(c, Err(TransportError))
        /\ UNCHANGED status
     \/ \E st \in env.statuses :
          /\ status' = [status EXCEPT ![c] = Some(st)]
          /\ IF st = StatusOK
             THEN Return(c, Ok(Unit))
             ELSE pc' = [pc EXCEPT ![c] = "text"] /\ UNCHANGED result
  /\ UNCHANGED <<inp, env, file_name, content, uuid, body, decoded, exit, wire>>

\* lines 104-108: res.text().await? and the error
insert_text(c) ==
  /\ pc[c] = "text" /\ inp[c].kind = "insert"
  /\ \E k \in DOMAIN env.bodies : LET o == env.bodies[k] IN
       /\ body' = [body EXCEPT ![c] = Some(o)]
       /\ IF o.ok
          THEN Return(c, Err(ServiceRejected("Failed to insert track", status[c][1], o.v)))
          ELSE Return(c, Err(TransportError))
  /\ UNCHANGED <<inp, env, file_name, content, uuid, status, decoded, exit, wire>>

(***************************************************************************)
(* lib.rs query                                                            *)
(***************************************************************************)
\* lines 113-134 and, for a Bytes source, on to send()
query_resolve(c) ==
  /\ pc[c] = "start" /\ inp[c].kind = "query"
  /\ LET a == inp[c]
         fnm == SourceName(a.source)
     IN  IF ~ValidConfidence(a.min_confidence)
         THEN /\ Return(c, Err(InvalidArgument))
              /\ UNCHANGED <<file_name, content, wire>>
         ELSE IF fnm = None
         THEN /\ Return(c, Err(InvalidPath))
              /\ UNCHANGED <<file_name, content, wire>>
         ELSE /\ file_name' = [file_name EXCEPT ![c] = fnm]
              /\ IF a.source.tag = "File"
                 THEN /\ pc' = [pc EXCEPT ![c] = "read"]
                      /\ UNCHANGED <<content, wire, result>>
                 ELSE /\ content' = [content EXCEPT ![c] = Some(Ok(a.source.bytes))]
                      /\ Transmit(c, QueryRequest(a.min_confidence, fnm[1],
                                                  a.source.bytes))
                      /\ pc' = [pc EXCEPT ![c] = "await"]
                      /\ UNCHANGED result
  /\ UNCHANGED <<inp, env, uuid, status, body, decoded, exit>>

\* lines 138-180: tokio::fs::read(&path).await, then the form and send()
query_read(c) ==
  /\ pc[c] = "read" /\ inp[c].kind = "query"
  /\ \E k \in DOMAIN ReadOutcomes : LET o == ReadOutcomes[k] IN
       /\ content' = [content EXCEPT ![c] = Some(o)]
       /\ IF o.ok
          THEN /\ Transmit(c, QueryRequest(inp[c].min_confidence, file_name[c][1], o.v))
               /\ pc' = [pc EXCEPT ![c] = "await"]
               /\ UNCHANGED result
          ELSE /\ Return(c, Err(IoError))
               /\ UNCHANGED wire
  /\ UNCHANGED <<inp, env, file_name, uuid, status, body, decoded, exit>>

\* lines 180-182: .send().await? and res.status()
query_status(c) ==
  /\ pc[c] = "await" /\ inp[c].kind = "query"
  /\ \/ /\ Return(c, Err(TransportError))
        /\ UNCHANGED status
     \/ \E st \in env.statuses :
          /\ status' = [status EXCEPT ![c] = Some(st)]
          /\ pc' = [pc EXCEPT ![c] = "body"]
          /\ UNCHANGED result
  /\ UNCHANGED <<inp, env, file_name, content, uuid, body, decoded, exit, wire>>

\* lines 184-191: res.json().await.context(..) on 200, res.text().await? otherwise
query_body(c) ==
  /\ pc[c] = "body" /\ inp[c].kind = "query"
  /\ \E k \in DOMAIN env.bodies : LET o == env.bodies[k] IN
       /\ body' = [body EXCEPT ![c] = Some(o)]
       /\ IF status[c][1] = StatusOK
          THEN /\ decoded' = [decoded EXCEPT ![c] = TRUE]
               /\ IF ResponseJson(o).ok
                  THEN Return(c, Ok(ResponseJson(o).v))
                  ELSE Return(c, Err(DecodeError))
          ELSE /\ UNCHANGED decoded
               /\ IF o.ok
                  THEN Return(c, Err(ServiceRejected("Failed to query track",
                                                     status[c][1], o.v)))
                  ELSE Return(c, Err(TransportError))
  /\ UNCHANGED <<inp, env, file_name, content, uuid, status, exit, wire>>

(***************************************************************************)
(* main.rs insert_track, run by main's Insert command                      *)
(***************************************************************************)
\* lines 117-120
insert_track_resolve(c) ==
  /\ pc[c] = "start" /\ inp[c].kind = "insert_track"
  /\ LET fnm == FileNameOf(inp[c].source.path)
     IN  IF fnm = None
         THEN /\ ReturnToMain(c, Err(InvalidPath))
              /\ UNCHANGED file_name
         ELSE /\ file_name' = [file_name EXCEPT ![c] = fnm]
              /\ pc' = [pc EXCEPT ![c] = "read"]
              /\ UNCHANGED <<result, exit>>
  /\ UNCHANGED <<inp, env, content, uuid, status, body, decoded, wire>>

\* lines 126-164: the read, Uuid::new_v4(), the form and send()
insert_track_read(c) ==
  /\ pc[c] = "read" /\ inp[c].kind = "insert_track"
  /\ \E k \in DOMAIN ReadOutcomes : LET o == ReadOutcomes[k] IN
       /\ content' = [content EXCEPT ![c] = Some(o)]
       /\ IF o.ok
          THEN \E u \in Uuids :
                 /\ uuid' = [uuid EXCEPT ![c] = Some(u)]
                 /\ Transmit(c, InsertTrackRequest(u, inp[c].artist, inp[c].title,
                                                   inp[c].meta, file_name[c][1], o.v))
                 /\ pc' = [pc EXCEPT ![c] = "await"]
                 /\ UNCHANGED <<result, exit>>
          ELSE /\ ReturnToMain(c, Err(IoError))
               /\ UNCHANGED <<uuid, wire>>
  /\ UNCHANGED <<inp, env, file_name, status, body, decoded>>

\* lines 164-172: .send().await? and the match on the status
insert_track_status(c) ==
  /\ pc[c] = "await" /\ inp[c].kind = "insert_track"
  /\ \/ /\ ReturnToMain(c, Err(TransportError))
        /\ UNCHANGED status
     \/ \E st \in env.statuses :
          /\ status' = [status EXCEPT ![c] = Some(st)]
          /\ IF st = StatusOK
             THEN ReturnToMain(c, Ok(uuid[c][1]))
             ELSE pc' = [pc EXCEPT ![c] = "text"] /\ UNCHANGED <<result, exit>>
  /\ UNCHANGED <<inp, env, file_name, content, uuid, body, decoded, wire>>

\* lines 173-180: bail!(.., res.status(), res.text().await?)
insert_track_text(c) ==
  /\ pc[c] = "text" /\ inp[c].kind = "insert_track"
  /\ \E k \in DOMAIN env.bodies : LET o == env.bodies[k] IN
       /\ body' = [body EXCEPT ![c] = Some(o)]
       /\ IF o.ok
          THEN ReturnToMain(c, Err(ServiceRejected("Failed to insert track",
                                                   status[c][1], o.v)))
          ELSE ReturnToMain(c, Err(TransportError))
  /\ UNCHANGED <<inp, env, file_name, content, uuid, status, decoded, wire>>

(***************************************************************************)
(* main.rs query_track, run by main's Query command                        *)
(***************************************************************************)
\* lines 187-190
query_track_resolve(c) ==
  /\ pc[c] = "start" /\ inp[c].kind = "query_track"
  /\ LET fnm == FileNameOf(inp[c].source.path)
     IN  IF fnm = None
         THEN /\ ReturnToMain(c, Err(InvalidPath))
              /\ UNCHANGED file_name
         ELSE /\ file_name' = [file_name EXCEPT ![c] = fnm]
              /\ pc' = [pc EXCEPT ![c] = "read"]
              /\ UNCHANGED <<result, exit>>
  /\ UNCHANGED <<inp, env, content, uuid, status, body, decoded, wire>>

\* lines 196-228: the read, the form and send()
query_track_read(c) ==
  /\ pc[c] = "read" /\ inp[c].kind = "query_track"
  /\ \E k \in DOMAIN ReadOutcomes : LET o == ReadOutcomes[k] IN
       /\ content' = [content EXCEPT ![c] = Some(o)]
       /\ IF o.ok
          THEN /\ Transmit(c, QueryTrackRequest(file_name[c][1], o.v))
               /\ pc' = [pc EXCEPT ![c] = "await"]
               /\ UNCHANGED <<result, exit>>
          ELSE /\ ReturnToMain(c, Err(IoError))
               /\ UNCHANGED wire
  /\ UNCHANGED <<inp, env, file_name, uuid, status, body, decoded>>

\* lines 228-232: .send().await? and res.status()
query_track_status(c) ==
  /\ pc[c] = "await" /\ inp[c].kind = "query_track"
  /\ \/ /\ ReturnToMain(c, Err(TransportError))
        /\ UNCHANGED status
     \/ \E st \in env.statuses :
          /\ status' = [status EXCEPT ![c] = Some(st)]
          /\ pc' = [pc EXCEPT ![c] = "body"]
          /\ UNCHANGED <<result, exit>>
  /\ UNCHANGED <<inp, env, file_name, content, uuid, body, decoded, wire>>

\* lines 232-245: res.json().await.context(..) on 200, bail! otherwise
query_track_body(c) ==
  /\ pc[c] = "body" /\ inp[c].kind = "query_track"
  /\ \E k \in DOMAIN env.bodies : LET o == env.bodies[k] IN
       /\ body' = [body EXCEPT ![c] = Some(o)]
       /\ IF status[c][1] = StatusOK
          THEN /\ decoded' = [decoded EXCEPT ![c] = TRUE]
               /\ IF ResponseJson(o).ok
                  THEN ReturnToMain(c, Ok(ResponseJson(o).v))
                  ELSE ReturnToMain(c, Err(DecodeError))
          ELSE /\ UNCHANGED decoded
               /\ IF o.ok
                  THEN ReturnToMain(c, Err(ServiceRejected("Failed to query track",
                                                           status[c][1], o.v)))
                  ELSE ReturnToMain(c, Err(TransportError))
  /\ UNCHANGED <<inp, env, file_name, content, uuid, status, wire>>

Next ==
  \E c \in Calls :
    \/ insert_resolve(c) \/ insert_read(c) \/ insert_status(c) \/ insert_text(c)
    \/ query_resolve(c) \/ query_read(c) \/ query_status(c) \/ query_body(c)
    \/ insert_track_resolve(c) \/ insert_track_read(c)
    \/ insert_track_status(c) \/ insert_track_text(c)
    \/ query_track_resolve(c) \/ query_track_read(c)
    \/ query_track_status(c) \/ query_track_body(c)

Spec == Init /\ [][Next]_vars

SpecConc == InitConc /\ [][Next]_vars

(***************************************************************************)
(* Vocabulary of the properties                                            *)
(***************************************************************************)
Sent(c) == {i \in DOMAIN wire : wire[i].call = c}
Done(c) == pc[c] = "done"
Succeeded(c) == result[c] # None /\ result[c][1].ok
FailedWith(c, kind) ==
  result[c] # None /\ ~result[c][1].ok /\ result[c][1].v.err = kind
SameJson(a, b) == a.t = b.t /\ a = b
IsFile(c) == inp[c].source.tag = "File"
InsertKinds == {"insert", "insert_track"}
QueryKinds == {"query", "query_track"}
Active(c) == inp[c].kind \in InsertKinds \cup QueryKinds
\* the value of the multipart text field Id in the request of call c
SentId(c) == wire[CHOOSE i \in Sent(c) : TRUE].req.form.fields[1][2]
OutOfRange(mc) == mc.nan \/ mc.v < 0 \/ mc.v > 100

(***************************************************************************)
(* C1: query with a minConfidence outside [0,1] (NaN included) fails with  *)
(* InvalidArgument before any file name is extracted, any file is read or  *)
(* any request is sent; with a minConfidence inside [0,1], bounds          *)
(* included, validation passes: the source is resolved (a name, or         *)
(* InvalidPath) and once the payload is at hand the request is sent.       *)
(***************************************************************************)
C1_ConfidenceValidatedFirst ==
  \A c \in Calls :
    (inp[c].kind = "query" /\ pc[c] # "start") =>
      IF OutOfRange(inp[c].min_confidence)
      THEN /\ Done(c) /\ FailedWith(c, "InvalidArgument")
           /\ file_name[c] = None /\ content[c] = None /\ Sent(c) = {}
      ELSE /\ ~FailedWith(c, "InvalidArgument")
           /\ file_name[c] # None \/ FailedWith(c, "InvalidPath")
           /\ (file_name[c] # None /\ ~IsFile(c)) => Sent(c) # {}
           /\ (content[c] # None /\ content[c][1].ok) => Sent(c) # {}

C1_Witness ==
  \E c \in Calls :
    /\ inp[c].kind = "query" /\ inp[c].source = File(PathRel)
    /\ inp[c].min_confidence = F32(101)
    /\ Done(c) /\ FailedWith(c, "InvalidArgument") /\ wire = <<>>

(***************************************************************************)
(* C2 as stated: every response whose status is not 200 makes the call     *)
(* fail with ServiceRejected carrying that status and the body text, and   *)
(* the body is never decoded.                                              *)
(***************************************************************************)
C2_Original ==
  \A c \in Calls :
    (Active(c) /\ Done(c) /\ status[c] # None /\ status[c][1] # 200) =>
      /\ ~decoded[c]
      /\ FailedWith(c, "ServiceRejected")
      /\ result[c][1].v.status = status[c][1]
      /\ body[c] # None /\ body[c][1].ok
      /\ SameJson(result[c][1].v.text, body[c][1].v)

(***************************************************************************)
(* C2 amended: a response whose status is not 200 makes the call fail and  *)
(* its body is never decoded as JSON; when the body text is read the       *)
(* failure is ServiceRejected with exactly that status and that text, and  *)
(* when reading the body fails it is the transport error.  A decode is     *)
(* attempted only when the status is 200.                                  *)
(***************************************************************************)
C2_NonOkStatusRejected ==
  \A c \in Calls :
    /\ decoded[c] => (status[c] # None /\ status[c][1] = 200)
    /\ (Active(c) /\ Done(c) /\ status[c] # None /\ status[c][1] # 200) =>
         /\ ~decoded[c] /\ body[c] # None
         /\ IF body[c][1].ok
            THEN /\ FailedWith(c, "ServiceRejected")
                 /\ result[c][1].v.status = status[c][1]
                 /\ SameJson(result[c][1].v.text, body[c][1].v)
            ELSE FailedWith(c, "TransportError")

C2_Witness ==
  \E c \in Calls :
    /\ inp[c].kind = "query" /\ Done(c)
    /\ status[c] = Some(500) /\ body[c] # None /\ body[c][1].ok
    /\ SameJson(body[c][1].v, BodyBoom)
    /\ FailedWith(c, "ServiceRejected") /\ ~decoded[c]

(***************************************************************************)
(* C3: on HTTP 200 the outcome of a query is the decoding of the body: an  *)
(* array of n well-formed matches (unknown fields ignored, n = 0 included) *)
(* gives success with n results in array order, each keeping its id; any   *)
(* other body gives DecodeError, never ServiceRejected.                    *)
(***************************************************************************)
WellFormedBodies == <<BodyEmpty, BodyOne, BodyTwo, BodyOutOfRange>>

HeldId(c) == IF inp[c].kind = "insert" THEN inp[c].id ELSE result[c][1].v

C4_Original ==
  \A c \in Calls :
    (inp[c].kind \in InsertKinds /\ Done(c) /\ Succeeded(c)) =>
      SentId(c) = UuidToString(HeldId(c))

(***************************************************************************)
(* C4 amended: an insert that receives 200 succeeds.  After lib.rs insert  *)
(* the field Id sent is the string form of the caller's id; after          *)
(* insert_track the field Id sent is the string form of the returned uuid  *)
(* followed by a space and the meta argument, so it is not the returned    *)
(* identifier itself.                                                      *)
(***************************************************************************)
C4_InsertReturnsIdentifier ==
  \A c \in Calls :
    /\ (inp[c].kind \in InsertKinds /\ status[c] = Some(200)) =>
         (Done(c) /\ Succeeded(c))
    /\ (inp[c].kind \in InsertKinds /\ Done(c) /\ Succeeded(c)) =>
         /\ status[c] = Some(200) /\ Cardinality(Sent(c)) = 1
         /\ inp[c].kind = "insert" => SentId(c) = UuidToString(inp[c].id)
         /\ inp[c].kind = "insert_track" =>
              /\ result[c][1].v = uuid[c][1]
              /\ SentId(c) = UuidToString(result[c][1].v) \o " " \o inp[c].meta
              /\ SentId(c) # UuidToString(result[c][1].v)

C4_Witness ==
  \E c \in Calls :
    /\ inp[c].kind = "insert_track" /\ inp[c].meta = "full"
    /\ Done(c) /\ Succeeded(c) /\ status[c] = Some(200)
    /\ SentId(c) = "00000000-0000-4000-8000-000000000002 full"

(***************************************************************************)
(* C5 as stated: with a File source, a path that has a final segment gives *)
(* a file part named exactly that segment; a path without one fails with   *)
(* InvalidPath before the file is read and before any request is sent.     *)
(***************************************************************************)
PastValidation(c) ==
  /\ Active(c) /\ IsFile(c) /\ pc[c] # "start"
  /\ inp[c].kind = "query" => ~OutOfRange(inp[c].min_confidence)

ValidUtf8(os) == \A i \in DOMAIN os : os[i] # BadByte

SameIdentityInput(c, d) ==
  /\ inp[c].kind = "insert_track" /\ inp[d].kind = "insert_track"
  /\ inp[c].artist = inp[d].artist /\ inp[c].title = inp[d].title
  /\ inp[c].meta = inp[d].meta
  /\ Sent(c) # {} /\ Sent(d) # {}

C6_Original ==
  \A c, d \in Calls : SameIdentityInput(c, d) => SentId(c) = SentId(d)

(***************************************************************************)
(* C6 amended: identity assignment in insert_track is random, not derived  *)
(* from (artist, title, meta): each call draws its own uuid, and two calls *)
(* with identical inputs send the same Id exactly when they drew the same  *)
(* uuid; the inputs determine only the meta suffix of the Id.              *)
(***************************************************************************)
C6_IdentityIsDrawnPerCall ==
  \A c, d \in Calls :
    SameIdentityInput(c, d) =>
      /\ uuid[c] # None /\ uuid[d] # None
      /\ (SentId(c) = SentId(d)) <=> (uuid[c] = uuid[d])

C6_Witness ==
  \E c, d \in Calls :
    /\ c # d /\ SameIdentityInput(c, d)
    /\ uuid[c] # uuid[d] /\ SentId(c) # SentId(d)
    /\ Done(c) /\ Done(d) /\ Succeeded(c) /\ Succeeded(d)

(***************************************************************************)
(* C7 as stated: every request of a query operation has a multipart body   *)
(* with only the file part, and the parameters mediaType=Audio,            *)
(* registerMatches=true and a single threshold parameter whose value is    *)
(* the minConfidence argument of the call.                                 *)
(***************************************************************************)
ThresholdNames == {"minConfidence", "minCoverage"}
ParamValues(req, name) ==
  {req.query[k][2] : k \in {j \in DOMAIN req.query : req.query[j][1] = name}}
Thresholds(req) == {k \in DOMAIN req.query : req.query[k][1] \in ThresholdNames}
OnlyFilePart(req) == req.form.fields = <<>> /\ req.form.file.name = "file"

C7_Original ==
  \A i \in DOMAIN wire :
    inp[wire[i].call].kind \in QueryKinds =>
      LET req == wire[i].req
      IN  /\ OnlyFilePart(req)
          /\ ParamValues(req, "mediaType") = {"Audio"}
          /\ ParamValues(req, "registerMatches") = {"true"}
          /\ Cardinality(Thresholds(req)) = 1
          /\ \A k \in Thresholds(req) :
               req.query[k][2] = F32ToString(inp[wire[i].call].min_confidence)

(***************************************************************************)
(* C7 amended: every request of a query operation has a multipart body     *)
(* with only the file part and the parameters mediaType=Audio and          *)
(* registerMatches=true.  lib.rs query adds a single threshold parameter,  *)
(* minCoverage, whose value is the string form of its min_confidence       *)
(* argument; query_track takes no threshold argument and adds two fixed    *)
(* threshold parameters, minConfidence=0.2 and minCoverage=0.              *)
(***************************************************************************)
C7_QueryRequestShape ==
  \A i \in DOMAIN wire :
    inp[wire[i].call].kind \in QueryKinds =>
      LET req == wire[i].req
          a == inp[wire[i].call]
      IN  /\ OnlyFilePart(req)
          /\ ParamValues(req, "mediaType") = {"Audio"}
          /\ ParamValues(req, "registerMatches") = {"true"}
          /\ a.kind = "query" =>
               /\ Len(req.query) = 3 /\ Cardinality(Thresholds(req)) = 1
               /\ ParamValues(req, "minCoverage") = {F32ToString(a.min_confidence)}
               /\ a.min_confidence = F32(0) => ParamValues(req, "minCoverage") = {"0"}
               /\ a.min_confidence = F32(20) => ParamValues(req, "minCoverage") = {"0.2"}
               /\ a.min_confidence = F32(100) => ParamValues(req, "minCoverage") = {"1"}
          /\ a.kind = "query_track" =>
               /\ Len(req.query) = 4 /\ Cardinality(Thresholds(req)) = 2
               /\ ParamValues(req, "minConfidence") = {"0.2"}
               /\ ParamValues(req, "minCoverage") = {"0"}

C7_Witness ==
  \E i \in DOMAIN wire :
    /\ inp[wire[i].call].kind = "query_track"
    /\ Cardinality(Thresholds(wire[i].req)) = 2
    /\ OnlyFilePart(wire[i].req)

(***************************************************************************)
(* C8: a call sends at most one request; a failure before transport        *)
(* (invalid argument, invalid path, file read error) means no request was  *)
(* sent; and every return, failures included, is final: once the call has *)
(* returned its result stays and it sends nothing more.                    *)
(***************************************************************************)
PreTransportErrors == {"InvalidArgument", "InvalidPath", "IoError"}
FailureKinds ==
  PreTransportErrors \cup {"TransportError", "ServiceRejected", "DecodeError"}

C8_AtMostOneRequest ==
  /\ [](\A c \in Calls :
          /\ Cardinality(Sent(c)) <= 1
          /\ (result[c] # None /\ ~result[c][1].ok) =>
               /\ Done(c) /\ result[c][1].v.err \in FailureKinds
               /\ result[c][1].v.err \in PreTransportErrors => Sent(c) = {}
               /\ result[c][1].v.err \notin PreTransportErrors =>
                    Cardinality(Sent(c)) = 1)
  /\ [][\A c \in Calls :
          Done(c) => /\ pc'[c] = "done" /\ result'[c] = result[c]
                     /\ Len(wire') = Len(wire)]_vars

C8_Witness ==
  \E c \in Calls :
    /\ Done(c) /\ FailedWith(c, "TransportError")
    /\ status[c] = None /\ Cardinality(Sent(c)) = 1

(***************************************************************************)
(* C9: under every interleaving, the request a call sends is built from    *)
(* its own arguments, its own payload and its own generated uuid, the      *)
(* result it returns is the one its own arguments, its own file read and   *)
(* the response to its own request determine, and no step of one call      *)
(* changes the state of another call.                                      *)
(***************************************************************************)
OwnName(c) ==
  IF IsFile(c) THEN ToStringLossy(PathFileName(inp[c].source.path)[1])
  ELSE inp[c].source.file_name

OwnRequest(c, req) ==
  LET a == inp[c]
  IN  /\ req.form.file.file_name = OwnName(c)
      /\ content[c] # None /\ content[c][1].ok
      /\ req.form.file.content = content[c][1].v
      /\ ~IsFile(c) => req.form.file.content = a.source.bytes
      /\ a.kind \in QueryKinds => req.form.fields = <<>>
      /\ a.kind \in InsertKinds =>
           /\ Len(req.form.fields) >= 4
           /\ req.form.fields[1][1] = "Id"
           /\ req.form.fields[1][2] =
                IF a.kind = "insert" THEN UuidToString(a.id)
                ELSE UuidToString(uuid[c][1]) \o " " \o a.meta
           /\ req.form.fields[2] = <<"Artist", a.artist>>
           /\ req.form.fields[3] = <<"Title", a.title>>
      /\ a.kind = "query" =>
           ParamValues(req, "minCoverage") = {F32ToString(a.min_confidence)}

\* the failure, "" for success, that the call's own observations determine
OwnFailure(c) ==
  LET a == inp[c]
  IN  IF a.kind = "query" /\ OutOfRange(a.min_confidence) THEN "InvalidArgument"
      ELSE IF IsFile(c) /\ PathFileName(a.source.path) = None THEN "InvalidPath"
      ELSE IF ~content[c][1].ok THEN "IoError"
      ELSE IF status[c] = None THEN "TransportError"
      ELSE IF status[c][1] = 200
           THEN IF a.kind \in InsertKinds THEN ""
                ELSE IF body[c][1].ok /\ body[c][1].v.t = "arr"
                        /\ \A k \in DOMAIN body[c][1].v.v :
                             DecodeQueryResult(body[c][1].v.v[k]).ok
                     THEN "" ELSE "DecodeError"
           ELSE IF body[c][1].ok THEN "ServiceRejected" ELSE "TransportError"

OwnResult(c) ==
  LET r == result[c][1]
      f == OwnFailure(c)
  IN  IF f = ""
      THEN /\ r.ok
           /\ inp[c].kind = "insert" => r.v = Unit
           /\ inp[c].kind = "insert_track" => r.v = uuid[c][1]
           /\ inp[c].kind \in QueryKinds =>
                /\ Len(r.v) = Len(body[c][1].v.v)
                /\ \A k \in DOMAIN r.v :
                     r.v[k] = DecodeQueryResult(body[c][1].v.v[k]).v
      ELSE /\ FailedWith(c, f)
           /\ f = "ServiceRejected" =>
                /\ r.v.status = status[c][1]
                /\ SameJson(r.v.text, body[c][1].v)

Local(c) ==
  <<pc[c], inp[c], file_name[c], content[c], uuid[c], status[c], body[c],
    decoded[c], result[c], exit[c]>>

C9_CallsAreIndependent ==
  /\ [](\A c \in Calls :
          /\ \A i \in Sent(c) : OwnRequest(c, wire[i].req)
          /\ Done(c) => OwnResult(c))
  /\ [][\E c \in Calls :
          /\ \A d \in Calls \ {c} : Local(d)' = Local(d)
          /\ \/ wire' = wire
             \/ /\ Len(wire') = Len(wire) + 1
                /\ SubSeq(wire', 1, Len(wire)) = wire
                /\ wire'[Len(wire')].call = c]_vars

C9_Witness ==
  \E c, d \in Calls :
    /\ c # d /\ Done(c) /\ Done(d)
    /\ inp[c].kind = "insert" /\ inp[d].kind = "query"
    /\ Len(wire) >= 2 /\ wire[1].call = c /\ wire[2].call = d
    /\ FailedWith(c, "ServiceRejected") /\ Succeeded(d)
    /\ Len(result[d][1].v) = 2

(***************************************************************************)
(* C10 as stated: in the command-line query command a query that succeeds  *)
(* with an empty result list makes the command complete successfully.      *)
(***************************************************************************)
EmptySuccess(c) ==
  /\ inp[c].kind = "query_track" /\ Done(c) /\ Succeeded(c)
  /\ Len(result[c][1].v) = 0

C10_Original ==
  \A c \in Calls : EmptySuccess(c) => (exit[c] # None /\ exit[c][1].ok)

(***************************************************************************)
(* C10 amended: in the command-line query command a query that succeeds    *)
(* with an empty result list ends as a failure of the command, the error   *)
(* "No results" with no cause.  That outcome is distinguishable from every *)
(* outcome in which the query propagated an error: those carry the message *)
(* "Failed to query track {file}" and the propagated error as cause.  A    *)
(* non-empty result list prints one score per result and succeeds.         *)
(***************************************************************************)
C10_EmptyResultIsNoResultsError ==
  \A c \in Calls :
    (inp[c].kind = "query_track" /\ Done(c)) =>
      LET r == result[c][1]
          x == exit[c][1]
      IN  /\ exit[c] # None
          /\ (r.ok /\ Len(r.v) = 0) =>
               (~x.ok /\ x.msg = "No results" /\ Len(x.cause) = 0)
          /\ (r.ok /\ Len(r.v) > 0) => (x.ok /\ Len(x.stdout) = Len(r.v))
          /\ ~r.ok =>
               /\ ~x.ok /\ x.msg = "Failed to query track {file}"
               /\ Len(x.cause) = 1 /\ x.cause[1].err = r.v.err

C10_Witness ==
  \E c \in Calls :
    /\ EmptySuccess(c) /\ status[c] = Some(200)
    /\ exit[c] # None /\ ~exit[c][1].ok /\ exit[c][1].msg = "No results"

(***************************************************************************)
(* C11: every QueryResult a successful query returns satisfies the         *)
(* invariants of the data model, whatever body the service sent: durations *)
(* and offsets are non-negative, every gap has start < end and             *)
(* lengthInSeconds = end - start, and queryCoverage and trackCoverage,     *)
(* when present, lie in [0,1] (0..100 in hundredths).                      *)
(***************************************************************************)
GapInvariant(g) ==
  /\ g.start >= 0 /\ g.end >= 0 /\ g.length_in_seconds >= 0
  /\ g.start < g.end
  /\ g.length_in_seconds = g.end - g.start

RatioInvariant(o) == o = None \/ (o[1] >= 0 /\ o[1] <= 100)

CoverageInvariant(cv) ==
  /\ cv.query_match_starts_at >= 0 /\ cv.track_match_starts_at >= 0
  /\ cv.query_coverage_length >= 0 /\ cv.track_coverage_length >= 0
  /\ cv.query_discrete_coverage_length >= 0
  /\ cv.track_discrete_coverage_length >= 0
  /\ cv.query_length >= 0 /\ cv.track_length >= 0
  /\ RatioInvariant(cv.query_coverage) /\ RatioInvariant(cv.track_coverage)
  /\ \A k \in DOMAIN cv.query_gaps : GapInvariant(cv.query_gaps[k])
  /\ \A k \in DOMAIN cv.track_gaps : GapInvariant(cv.track_gaps[k])

QueryResultInvariant(q) ==
  /\ q.track.length >= 0
  /\ Len(q.audio) = 1 => CoverageInvariant(q.audio[1].coverage)

C11_ResultsSatisfyDataModel ==
  \A c \in Calls :
    (inp[c].kind \in QueryKinds /\ Done(c) /\ Succeeded(c)) =>
      \A k \in DOMAIN result[c][1].v : QueryResultInvariant(result[c][1].v[k])

====
